---- MODULE Spec2Model ----
(***************************************************************************)
(* Model of pyang/plugins/sample.py: SamplePlugin.emit and the node        *)
(* handlers it dispatches to.  A schema tree (statement objects with       *)
(* keyword, arg, i_children, ...) is walked depth-first and an             *)
(* ElementTree document is built under self.top and finally written to fd. *)
(*                                                                         *)
(* The recursion of process_children / container / list is unfolded into   *)
(* an explicit call stack, one handler invocation per step, so that the    *)
(* order in which the document grows is observable.                        *)
(***************************************************************************)
EXTENDS Integers, Sequences, FiniteSets, TLC

VARIABLES
    stmts,      \* the statement objects of the schema: statement id -> statement
    modules,    \* emit's argument `modules`: sequence of module statement ids
    ctx,        \* emit's argument `ctx`: [errors, opts]
    plugin,     \* the registered SamplePlugin instance (lives across emit calls)
    fresh,      \* a SamplePlugin instance constructed just before the current call
    previous    \* history: how the preceding emit call on `plugin` ended ("none": no such call)

vars == <<stmts, modules, ctx, plugin, fresh, previous>>

(***************************************************************************)
(* Bounds                                                                  *)
(***************************************************************************)
\* largest min-elements argument tried on list / leaf-list statements
MaxMinElements == 2

(***************************************************************************)
(* Statements (the host's resolved schema tree)                            *)
(***************************************************************************)
\* Optional values: <<>> is Python's None, <<v>> is the value v.
None == <<>>
Some(v) == <<v>>

\* A statement object with the attributes the plugin reads.
Stmt(kw, arg, mm, kids) ==
    [keyword    |-> kw,      \* node.keyword
     arg        |-> arg,     \* node.arg
     mm         |-> mm,      \* node.main_module(): id of the module statement
     i_children |-> kids,    \* node.i_children
     i_default  |-> None,    \* node.i_default
     minel      |-> None,    \* node.search_one("min-elements").arg
     maxel      |-> None,    \* node.search_one("max-elements").arg
     presence   |-> None,    \* node.search_one("presence").arg
     type       |-> "string",\* node.search_one("type").arg
     namespace  |-> ""]      \* yam.search_one("namespace").arg

Module(name, ns, me, kids) ==
    [Stmt("module", name, me, kids) EXCEPT !.namespace = ns]

WithDefault(s, d) == [s EXCEPT !.i_default = d]
WithMin(s, m) == [s EXCEPT !.minel = m]
WithMax(s, m) == [s EXCEPT !.maxel = m]
WithPresence(s, p) == [s EXCEPT !.presence = p]
WithType(s, t) == [s EXCEPT !.type = t]

\* The arguments a min-elements substatement is given in the schemas below:
\* absent, or the decimal string of 0 .. MaxMinElements.
MinElementsArgs == {None} \cup {Some(ToString(n)) : n \in 0..MaxMinElements}

\* The values of i_default tried on leafs: no default, or the default 42.
DefaultValues == {None, Some(42)}

(* Schema "nested": one module; a presence container holding a leaf, a     *)
(* list with a key leaf and a leaf-list, an anyxml; a top-level leaf.      *)
(* Statement ids are deliberately not in pre-order.                        *)
SchemaNested(d, m1, m2) ==
    <<Module("sys-mod", "urn:sys", 1, <<5, 2>>),
      WithType(Stmt("leaf", "tail", 1, <<>>), "boolean"),
      WithMin(Stmt("leaf-list", "role", 1, <<>>), m2),
      WithDefault(WithType(Stmt("leaf", "name", 1, <<>>), "string"), d),
      WithPresence(Stmt("container", "sys", 1, <<4, 7, 6>>), Some("enabled")),
      Stmt("anyxml", "extra", 1, <<>>),
      WithMax(WithMin(Stmt("list", "user", 1, <<8, 3, 9>>), m1), Some("4")),
      WithType(Stmt("leaf", "id", 1, <<>>), "uint8"),
      WithMax(Stmt("list", "key", 1, <<10>>), Some("9")),
      WithDefault(WithType(Stmt("leaf", "bits", 1, <<>>), "uint16"), d)>>

(* Schema "choice": a container with a choice of two cases, one of them    *)
(* holding a nested choice; a top-level choice; lists inside cases.        *)
SchemaChoice(d, m1, m2) ==
    <<Module("if-mod", "urn:if", 1, <<2, 12>>),
      Stmt("container", "if", 1, <<3, 11>>),
      Stmt("choice", "kind", 1, <<4, 8>>),
      Stmt("case", "eth", 1, <<5, 6>>),
      WithDefault(WithType(Stmt("leaf", "mtu", 1, <<>>), "uint16"), d),
      Stmt("choice", "dup", 1, <<7>>),
      Stmt("case", "dup-c", 1, <<13>>),
      Stmt("case", "ppp", 1, <<9, 14>>),
      WithMin(Stmt("list", "peer", 1, <<10, 17>>), m1),
      WithType(Stmt("leaf", "addr", 1, <<>>), "string"),
      WithType(Stmt("leaf", "descr", 1, <<>>), "string"),
      Stmt("choice", "topch", 1, <<15>>),
      Stmt("anyxml", "any", 1, <<>>),
      WithMin(Stmt("leaf-list", "dns", 1, <<>>), m2),
      Stmt("case", "tc", 1, <<16>>),
      Stmt("container", "alt", 1, <<>>),
      Stmt("choice", "auth", 1, <<18>>),
      Stmt("case", "pw", 1, <<19>>),
      WithDefault(WithType(Stmt("leaf", "secret", 1, <<>>), "string"), d)>>

(* Schema "multi": two modules.  Module 2 augments a container into        *)
(* module 1's tree and has top-level nodes named like module 1's; module 1 *)
(* also has an rpc and a notification, whose subtrees hold leafs.          *)
SchemaMulti(d, m1, m2) ==
    <<Module("a-mod", "urn:a", 1, <<3, 7, 10>>),
      Module("b-mod", "urn:b", 2, <<12, 13>>),
      Stmt("container", "sys", 1, <<4, 5, 6>>),
      WithDefault(WithType(Stmt("leaf", "name", 1, <<>>), "string"), d),
      Stmt("container", "ext", 2, <<14>>),
      WithType(Stmt("leaf", "after", 1, <<>>), "int8"),
      Stmt("rpc", "reset", 1, <<8>>),
      Stmt("input", "input", 1, <<9>>),
      WithType(Stmt("leaf", "delay", 1, <<>>), "uint32"),
      Stmt("notification", "event", 1, <<11, 16>>),
      WithType(Stmt("leaf", "sev", 1, <<>>), "uint8"),
      WithMin(Stmt("leaf-list", "sys", 2, <<>>), m1),
      WithMin(Stmt("list", "name", 2, <<15>>), m2),
      WithType(Stmt("leaf", "flag", 2, <<>>), "empty"),
      WithType(Stmt("leaf", "k", 2, <<>>), "string"),
      Stmt("container", "body", 1, <<>>)>>

(***************************************************************************)
(* The ElementTree document                                                *)
(*                                                                         *)
(* The elements of one document live in a heap: a sequence indexed by      *)
(* element id, element 1 being self.top.  An element's children are a      *)
(* sequence of items, each a sub-element (by id) or a comment.             *)
(***************************************************************************)
ElemItem(id) == [k |-> "elem", id |-> id, text |-> ""]
CommentItem(t) == [k |-> "comment", id |-> 0, text |-> t]

\* ET.Element(tag, attrib) / a new sub-element: no text, no children.
\* `node` records the statement the element was created for (0: none); it
\* is not part of the written document.
\* attrib is the sequence of the <<name, value>> pairs set on the element.
Element(tag, attrib, node) ==
    [tag |-> tag, attrib |-> attrib, text |-> None, kids |-> <<>>, node |-> node]

\* elem.append(item)
AppendItem(top, elem, item) ==
    [top EXCEPT ![elem].kids = Append(@, item)]

\* elem.insert(0, item)
InsertFirst(top, elem, item) ==
    [top EXCEPT ![elem].kids = <<item>> \o @]

\* Variant of SubElement: the new element is put first among parent's
\* children instead of last.
SubElementFirst(top, parent, tag, node) ==
    InsertFirst(Append(top, Element(tag, <<>>, node)), parent, ElemItem(Len(top) + 1))

\* ET.SubElement(parent, tag): a new element, appended to parent's children.
\* The new element's id is Len(top) + 1.
SubElement(top, parent, tag, node) ==
    AppendItem(Append(top, Element(tag, <<>>, node)), parent, ElemItem(Len(top) + 1))

\* The ids of the elements of the subtree rooted at element e, in document
\* order (comments left out).
RECURSIVE Flat(_, _)
RECURSIVE FlatKids(_, _, _)
Flat(top, e) == <<e>> \o FlatKids(top, top[e].kids, 1)

FlatKids(top, kids, i) ==
    IF i > Len(kids) THEN <<>>
    ELSE (IF kids[i].k = "elem" THEN Flat(top, kids[i].id) ELSE <<>>)
         \o FlatKids(top, kids, i + 1)

\* Index of x in the sequence s (x occurs in s).
IndexOf(s, x) == CHOOSE i \in 1..Len(s) : s[i] = x

\* parent.append(copy.deepcopy(elem)): the subtree of elem is duplicated,
\* element by element (tag, attributes, text, comments and sub-elements),
\* into new elements, and the copy's root becomes the last child of parent.
AppendDeepCopy(top, parent, elem) ==
    LET sub == Flat(top, elem)
        base == Len(top)
        newId(x) == base + IndexOf(sub, x)
        copyOf(x) ==
            [top[x] EXCEPT !.kids =
                [j \in DOMAIN @ |->
                    IF @[j].k = "elem" THEN ElemItem(newId(@[j].id)) ELSE @[j]]]
        grown == top \o [i \in 1..Len(sub) |-> copyOf(sub[i])]
    IN AppendItem(grown, parent, ElemItem(base + 1))

(***************************************************************************)
(* tree.write(fd, xml_declaration=True): the document as the sequence of   *)
(* the tokens written.  Element ids and the `node` field do not appear.    *)
(***************************************************************************)
Token(t, name, attrib, text) ==
    [t |-> t, name |-> name, attrib |-> attrib, text |-> text]

RECURSIVE Serialize(_, _)
RECURSIVE SerializeKids(_, _, _)
Serialize(top, e) ==
    <<Token("start", top[e].tag, top[e].attrib, top[e].text)>>
    \o SerializeKids(top, top[e].kids, 1)
    \o <<Token("end", top[e].tag, <<>>, None)>>

SerializeKids(top, kids, i) ==
    IF i > Len(kids) THEN <<>>
    ELSE (IF kids[i].k = "elem" THEN Serialize(top, kids[i].id)
          ELSE <<Token("comment", "", <<>>, Some(kids[i].text))>>)
         \o SerializeKids(top, kids, i + 1)

Write(top) ==
    <<Token("xml-declaration", "", <<>>, None)>> \o Serialize(top, 1)

(***************************************************************************)
(* The SamplePlugin instance                                               *)
(*                                                                         *)
(* A record of the instance attributes emit and its helpers assign         *)
(* (annots, defaults, ns_uri, top, currmod), together with the activation  *)
(* of emit on the instance: pc, the call stack of the handlers, the        *)
(* exception raised, and what has been written to the call's fd.           *)
(***************************************************************************)
\* SamplePlugin(): none of the attributes is assigned before the first emit.
NewPlugin ==
    [annots   |-> FALSE,
     defaults |-> FALSE,
     ns_uri   |-> <<>>,
     top      |-> <<>>,
     currmod  |-> None,
     pc       |-> "idle",     \* idle, running, done (emit returned), failed (emit raised)
     stack    |-> <<>>,
     raised   |-> "",
     fd       |-> <<>>]

\* Stack frames: the for loop of emit over modules, an activation of
\* process_children (node, elem, position idx in node.i_children), and an
\* activation of list suspended in its call of process_children.
EmitFrame == [op |-> "emit", node |-> 0, elem |-> 1, nel |-> 0, idx |-> 1]
ChildrenFrame(node, elem) ==
    [op |-> "process_children", node |-> node, elem |-> elem, nel |-> 0, idx |-> 1]
ListFrame(node, elem, nel) ==
    [op |-> "list", node |-> node, elem |-> elem, nel |-> nel, idx |-> 0]

Top(s) == s.stack[Len(s.stack)]
Pop(s) == [s EXCEPT !.stack = SubSeq(@, 1, Len(@) - 1)]
Push(s, f) == [s EXCEPT !.stack = Append(@, f)]
\* the loop of the frame on top of the stack moves on to its next item
Advance(s) == [s EXCEPT !.stack[Len(s.stack)].idx = @ + 1]

\* An exception propagates out of emit: nothing is written.
Raise(s, exc) == [s EXCEPT !.pc = "failed", !.raised = exc, !.stack = <<>>]

\* int(minel.arg), on the decimal strings the schemas use
IntOf(str) == CHOOSE n \in 0..(MaxMinElements + 1) : ToString(n) = str

\* str(node.i_default)
Str(v) == ToString(v)

\* sample_element: create the element under parent; declare the namespace
\* when the node's main module differs from self.currmod.  The new element
\* is res = Len(s.top) + 1.  self.ns_uri[mm] raises KeyError when mm is not
\* one of the modules emit was given (the element is already appended).
SampleElement(s, sch, node, parent) ==
    LET res == Len(s.top) + 1
        mm == sch[node].mm
        s1 == [s EXCEPT !.top = SubElement(@, parent, sch[node].arg, node)]
    IN  IF Some(mm) # s.currmod
        THEN IF mm \in DOMAIN s.ns_uri
             THEN [s1 EXCEPT !.top[res].attrib = Append(@, <<"xmlns", s.ns_uri[mm]>>),
                             !.currmod = Some(mm)]
             ELSE Raise(s1, "KeyError")
        ELSE s1

\* add_copies: rep = 0 if minel is None else int(minel.arg) - 1;
\* for i in range(rep): parent.append(copy.deepcopy(elem))
RECURSIVE Copies(_, _, _, _)
Copies(top, parent, elem, rep) ==
    IF rep <= 0 THEN top
    ELSE Copies(AppendDeepCopy(top, parent, elem), parent, elem, rep - 1)

\* Variant of add_copies: rep = int(minel.arg), one copy too many.
AddCopiesOffByOne(s, parent, elem, minel) ==
    LET rep == IF minel = None THEN 0 ELSE IntOf(minel[1])
    IN  [s EXCEPT !.top = Copies(@, parent, elem, rep)]

AddCopies(s, parent, elem, minel) ==
    LET rep == IF minel = None THEN 0 ELSE IntOf(minel[1]) - 1
    IN  [s EXCEPT !.top = Copies(@, parent, elem, rep)]

\* list_comment
ListComment(s, sch, node, elem, minel) ==
    IF ~s.annots THEN s
    ELSE LET lo == IF minel = None THEN "0" ELSE minel[1]
             maxel == sch[node].maxel
             hi == IF maxel = None THEN "" ELSE maxel[1]
         IN  [s EXCEPT !.top = InsertFirst(@, elem,
                    CommentItem(" # entries: " \o lo \o ".." \o hi \o " "))]

\* process_children: entered; its loop runs in the following steps.
ProcessChildren(s, sch, node, elem) == Push(s, ChildrenFrame(node, elem))

\* ignore
Ignore(s, sch, node, elem) == s

\* container
Container(s, sch, node, elem) ==
    LET nel == Len(s.top) + 1
        s1 == SampleElement(s, sch, node, elem)
        pres == sch[node].presence
        s2 == IF s1.annots /\ pres # None
              THEN [s1 EXCEPT !.top = AppendItem(@, nel,
                        CommentItem(" presence: " \o pres[1] \o " "))]
              ELSE s1
    IN  IF s1.pc = "failed" THEN s1 ELSE ProcessChildren(s2, sch, node, nel)

\* Variant of leaf: the test of self.defaults comes first, so that without
\* --sample-defaults no leaf element is created at all.
LeafDefaultsFirst(s, sch, node, elem) ==
    LET nel == Len(s.top) + 1
        s1 == SampleElement(s, sch, node, elem)
    IN  IF ~s.defaults THEN s
        ELSE IF s1.pc = "failed" THEN s1
        ELSE IF sch[node].i_default = None
        THEN IF s1.annots
             THEN [s1 EXCEPT !.top = AppendItem(@, nel,
                        CommentItem(" type: " \o sch[node].type \o " "))]
             ELSE s1
        ELSE [s1 EXCEPT !.top[nel].text = Some(Str(sch[node].i_default[1]))]

\* leaf
Leaf(s, sch, node, elem) ==
    LET nel == Len(s.top) + 1
        s1 == SampleElement(s, sch, node, elem)
    IN  IF sch[node].i_default = None
        THEN IF s1.pc # "failed" /\ s1.annots
             THEN [s1 EXCEPT !.top = AppendItem(@, nel,
                        CommentItem(" type: " \o sch[node].type \o " "))]
             ELSE s1
        ELSE IF s.defaults
        THEN IF s1.pc # "failed"
             THEN [s1 EXCEPT !.top[nel].text = Some(Str(sch[node].i_default[1]))]
             ELSE s1
        ELSE s

\* anyxml
Anyxml(s, sch, node, elem) ==
    LET nel == Len(s.top) + 1
        s1 == SampleElement(s, sch, node, elem)
    IN  IF s1.pc # "failed" /\ s1.annots
        THEN [s1 EXCEPT !.top = AppendItem(@, nel, CommentItem(" anyxml "))]
        ELSE s1

\* list, up to and into its call of process_children (lines 145-146)
List(s, sch, node, elem) ==
    LET nel == Len(s.top) + 1
        s1 == SampleElement(s, sch, node, elem)
    IN  IF s1.pc = "failed" THEN s1
        ELSE ProcessChildren(Push(s1, ListFrame(node, elem, nel)), sch, node, nel)

\* list, after process_children has returned (lines 147-149)
ListRest(s, sch, node, elem, nel) ==
    LET minel == sch[node].minel
    IN  ListComment(AddCopies(s, elem, nel, minel), sch, node, nel, minel)

\* Variant of leaf_list: with min-elements 0 no entry is created.
LeafListMinEntries(s, sch, node, elem) ==
    LET nel == Len(s.top) + 1
        s1 == SampleElement(s, sch, node, elem)
        minel == sch[node].minel
    IN  IF minel # None /\ IntOf(minel[1]) = 0 THEN s
        ELSE IF s1.pc = "failed" THEN s1
        ELSE ListComment(AddCopies(s1, elem, nel, minel), sch, node, nel, minel)

\* leaf_list
LeafList(s, sch, node, elem) ==
    LET nel == Len(s.top) + 1
        s1 == SampleElement(s, sch, node, elem)
        minel == sch[node].minel
    IN  IF s1.pc = "failed" THEN s1
        ELSE ListComment(AddCopies(s1, elem, nel, minel), sch, node, nel, minel)

\* Variant of the handler table: "case" is handled by container, which
\* creates an element for the case.
NodeHandlerCaseElement(s, sch, ch, elem) ==
    LET kw == sch[ch].keyword
    IN  CASE kw = "container" -> Container(s, sch, ch, elem)
          [] kw = "leaf" -> Leaf(s, sch, ch, elem)
          [] kw = "anyxml" -> Anyxml(s, sch, ch, elem)
          [] kw = "choice" -> ProcessChildren(s, sch, ch, elem)
          [] kw = "case" -> Container(s, sch, ch, elem)
          [] kw = "list" -> List(s, sch, ch, elem)
          [] kw = "leaf-list" -> LeafList(s, sch, ch, elem)
          [] kw = "rpc" -> Ignore(s, sch, ch, elem)
          [] kw = "notification" -> Ignore(s, sch, ch, elem)
          [] OTHER -> Raise(s, "KeyError")

\* self.node_handler[ch.keyword](ch, elem); a keyword that is not a key of
\* the table raises KeyError.
NodeHandler(s, sch, ch, elem) ==
    LET kw == sch[ch].keyword
    IN  CASE kw = "container" -> Container(s, sch, ch, elem)
          [] kw = "leaf" -> Leaf(s, sch, ch, elem)
          [] kw = "anyxml" -> Anyxml(s, sch, ch, elem)
          [] kw = "choice" -> ProcessChildren(s, sch, ch, elem)
          [] kw = "case" -> ProcessChildren(s, sch, ch, elem)
          [] kw = "list" -> List(s, sch, ch, elem)
          [] kw = "leaf-list" -> LeafList(s, sch, ch, elem)
          [] kw = "rpc" -> Ignore(s, sch, ch, elem)
          [] kw = "notification" -> Ignore(s, sch, ch, elem)
          [] OTHER -> Raise(s, "KeyError")

\* for (epos, etag, eargs) in ctx.errors: if error.is_error(error.err_level(etag))
HasError(c) == \E i \in DOMAIN c.errors : c.errors[i].is_error

Range(seq) == {seq[i] : i \in DOMAIN seq}

\* emit, from its entry to the start of the loop over modules: the checks
\* that raise EmitError, then the assignments of lines 86-102.
EmitBegin(s, sch, mods, c) ==
    IF HasError(c) THEN Raise(s, "EmitError")
    ELSE IF c.opts.doctype \notin {"config", "data"} THEN Raise(s, "EmitError")
    ELSE [s EXCEPT
            !.annots = c.opts.sample_annots,
            !.defaults = c.opts.sample_defaults,
            !.ns_uri = [yam \in Range(mods) |-> sch[yam].namespace],
            !.top = <<Element(c.opts.doctype,
                        <<<<"xmlns:nc", "urn:ietf:params:xml:ns:netconf:base:1.0">>>>, 0)>>,
            !.pc = "running",
            !.stack = <<EmitFrame>>]

\* Variant of the loop body: self.currmod is not reset.
EmitModuleKeepCurrmod(s, sch, yam) == ProcessChildren(s, sch, yam, 1)

\* One iteration of `for yam in modules`: reset currmod, enter
\* process_children(yam, self.top).
EmitModule(s, sch, yam) ==
    ProcessChildren([s EXCEPT !.currmod = None], sch, yam, 1)

\* tree.write(fd, ...), after which emit returns.
EmitWrite(s) == [s EXCEPT !.fd = Write(s.top), !.pc = "done", !.stack = <<>>]

\* One step of a running emit: the frame on top of the stack proceeds.
Step(s, sch, mods) ==
    IF s.pc # "running" THEN s
    ELSE LET f == Top(s)
         IN  CASE f.op = "emit" ->
                    IF f.idx <= Len(mods)
                    THEN EmitModule(Advance(s), sch, mods[f.idx])
                    ELSE EmitWrite(s)
               [] f.op = "process_children" ->
                    IF f.idx <= Len(sch[f.node].i_children)
                    THEN NodeHandler(Advance(s), sch, sch[f.node].i_children[f.idx], f.elem)
                    ELSE Pop(s)
               [] f.op = "list" ->
                    ListRest(Pop(s), sch, f.node, f.elem, f.nel)

(***************************************************************************)
(* The inputs of an emit call                                              *)
(***************************************************************************)
\* ctx.errors entries, classified as error.is_error(error.err_level(etag)) does
Warning == [etag |-> "UNUSED_IMPORT", is_error |-> FALSE]
Error == [etag |-> "BAD_VALUE", is_error |-> TRUE]

Ctx(errors, doctype, defaults, annots) ==
    [errors |-> errors,
     opts |-> [doctype |-> doctype, sample_defaults |-> defaults, sample_annots |-> annots]]

Input(sch, mods, c) == [stmts |-> sch, modules |-> mods, ctx |-> c]

Ctxs ==
    {Ctx(e, t, d, a) : e \in {<<>>, <<Warning>>, <<Warning, Error>>},
                       t \in {"data", "config", "rpc"},
                       d \in BOOLEAN, a \in BOOLEAN}

Schemas ==
    UNION {
        {Input(SchemaNested(d, m1, m2), <<1>>, c) : c \in {<<>>}}
        \cup {Input(SchemaChoice(d, m1, m2), <<1>>, c) : c \in {<<>>}}
        \cup {Input(SchemaMulti(d, m1, m2), mods, c) :
                    mods \in {<<>>, <<1>>, <<2>>, <<1, 2>>, <<2, 1>>}, c \in {<<>>}}
        : d \in DefaultValues, m1 \in MinElementsArgs, m2 \in MinElementsArgs}

\* every schema above with every ctx
Inputs == {Input(i.stmts, i.modules, c) : i \in Schemas, c \in Ctxs}

\* The inputs of the calls that reuse one plugin instance.
ReuseSchemas ==
    {Input(SchemaNested(d, Some("2"), None), <<1>>, <<>>) : d \in DefaultValues}
    \cup {Input(SchemaChoice(Some(42), None, Some("0")), <<1>>, <<>>)}
    \cup {Input(SchemaMulti(None, Some("2"), None), mods, <<>>) :
                mods \in {<<1>>, <<2>>, <<1, 2>>, <<2, 1>>}}

ReuseCtxs ==
    {Ctx(<<>>, "data", FALSE, FALSE), Ctx(<<Warning>>, "data", TRUE, TRUE),
     Ctx(<<>>, "config", TRUE, FALSE), Ctx(<<>>, "config", FALSE, TRUE),
     Ctx(<<>>, "rpc", FALSE, FALSE), Ctx(<<Error>>, "data", FALSE, TRUE)}

ReuseInputs == {Input(i.stmts, i.modules, c) : i \in ReuseSchemas, c \in ReuseCtxs}

(***************************************************************************)
(* The state machine                                                       *)
(***************************************************************************)
\* The host has loaded the modules and is about to call emit on the
\* registered plugin instance.
InitWith(inputs) ==
    /\ \E i \in inputs : stmts = i.stmts /\ modules = i.modules /\ ctx = i.ctx
    /\ plugin = NewPlugin
    /\ fresh = NewPlugin
    /\ previous = "none"

Init == InitWith(Inputs)

\* Both instances take the step their own emit activation is at.
StepBoth ==
    /\ plugin' = Step(plugin, stmts, modules)
    /\ fresh' = Step(fresh, stmts, modules)
    /\ UNCHANGED <<stmts, modules, ctx, previous>>

\* emit(ctx, modules, fd) is called: validation and set-up.
Emit ==
    /\ plugin.pc = "idle"
    /\ plugin' = EmitBegin(plugin, stmts, modules, ctx)
    /\ fresh' = EmitBegin(fresh, stmts, modules, ctx)
    /\ UNCHANGED <<stmts, modules, ctx, previous>>

Running(op) == plugin.pc = "running" /\ Top(plugin).op = op

\* the child the process_children activation on top of the stack is at
HasChild == Top(plugin).idx <= Len(stmts[Top(plugin).node].i_children)
Child == stmts[stmts[Top(plugin).node].i_children[Top(plugin).idx]]

\* emit's loop takes the next module
NextModule == Running("emit") /\ Top(plugin).idx <= Len(modules) /\ StepBoth

\* emit's loop is over: the document is written and emit returns
WriteDocument == Running("emit") /\ Top(plugin).idx > Len(modules) /\ StepBoth

\* process_children is about to dispatch a child with one of the keywords
Visiting(keywords) ==
    Running("process_children") /\ HasChild /\ Child.keyword \in keywords

\* self.node_handler[ch.keyword](ch, elem), by the handler the table names
VisitContainer == Visiting({"container"}) /\ StepBoth
VisitLeaf == Visiting({"leaf"}) /\ StepBoth
VisitAnyxml == Visiting({"anyxml"}) /\ StepBoth
VisitChoiceOrCase == Visiting({"choice", "case"}) /\ StepBoth
VisitList == Visiting({"list"}) /\ StepBoth
VisitLeafList == Visiting({"leaf-list"}) /\ StepBoth
VisitIgnored == Visiting({"rpc", "notification"}) /\ StepBoth

\* process_children has no more children: it returns
ReturnFromChildren == Running("process_children") /\ ~HasChild /\ StepBoth

\* list goes on after its process_children call: add_copies, list_comment
FinishList == Running("list") /\ StepBoth

Next ==
    \/ Emit
    \/ NextModule
    \/ VisitContainer
    \/ VisitLeaf
    \/ VisitAnyxml
    \/ VisitChoiceOrCase
    \/ VisitList
    \/ VisitLeafList
    \/ VisitIgnored
    \/ ReturnFromChildren
    \/ FinishList
    \/ WriteDocument

Spec == Init /\ [][Next]_vars

\* The host calls emit again on the same plugin instance, with other
\* modules and options and a new fd; `fresh` is constructed anew.
Again ==
    /\ plugin.pc \in {"done", "failed"}
    /\ \E i \in ReuseInputs : stmts' = i.stmts /\ modules' = i.modules /\ ctx' = i.ctx
    /\ plugin' = [plugin EXCEPT !.pc = "idle", !.raised = "", !.fd = <<>>]
    /\ fresh' = NewPlugin
    /\ previous' = plugin.pc

InitReuse == InitWith(ReuseInputs)

NextReuse == Next \/ Again

SpecReuse == InitReuse /\ [][NextReuse]_vars

(***************************************************************************)
(* Vocabulary of the properties                                            *)
(***************************************************************************)
Done == plugin.pc = "done"

\* ids of the elements of the document, in document order, and as a set
DocOrder(top) == IF top = <<>> THEN <<>> ELSE Flat(top, 1)
InDoc == Range(DocOrder(plugin.top))

\* the sub-elements of element e, in order (comments left out)
SubElements(top, e) ==
    LET k == SelectSeq(top[e].kids, LAMBDA it : it.k = "elem")
    IN  [i \in DOMAIN k |-> k[i].id]

IsPrefix(a, b) == Len(a) <= Len(b) /\ SubSeq(b, 1, Len(a)) = a

\* pre-order of the schema below statement n (n included)
RECURSIVE PreOrder(_, _)
RECURSIVE PreOrderSeq(_, _, _)
PreOrder(sch, n) == <<n>> \o PreOrderSeq(sch, sch[n].i_children, 1)

PreOrderSeq(sch, ns, i) ==
    IF i > Len(ns) THEN <<>>
    ELSE PreOrder(sch, ns[i]) \o PreOrderSeq(sch, ns, i + 1)

\* pre-order of the schema trees of the modules emit was given, in their order
SchemaPreOrder == PreOrderSeq(stmts, modules, 1)
SchemaTree == Range(SchemaPreOrder)

\* the statement whose i_children holds n
ParentStmt(n) == CHOOSE p \in DOMAIN stmts : n \in Range(stmts[p].i_children)

\* n lies in the subtree of an rpc or a notification
RECURSIVE InOperation(_)
InOperation(n) ==
    IF stmts[n].keyword = "module" THEN FALSE
    ELSE IF stmts[n].keyword \in {"rpc", "notification"} THEN TRUE
    ELSE InOperation(ParentStmt(n))

\* the data nodes of the given modules: the statements of the schema tree
\* outside rpcs and notifications, the modules themselves left out
DataNodes == {n \in SchemaTree : stmts[n].keyword # "module" /\ ~InOperation(n)}

\* the nearest ancestor of n that is neither a choice nor a case
RECURSIVE Enclosing(_)
Enclosing(n) ==
    LET p == ParentStmt(n)
    IN  IF stmts[p].keyword \in {"choice", "case"} THEN Enclosing(p) ELSE p

\* the elements of the document created for statement n; self.top stands
\* for the modules
ElementsOf(n) ==
    IF stmts[n].keyword = "module" THEN {1}
    ELSE {e \in InDoc : plugin.top[e].node = n /\ plugin.top[e].tag = stmts[n].arg}

\* the entries of n under element e: e's sub-elements created for n
EntriesUnder(e, n) ==
    {x \in Range(SubElements(plugin.top, e)) : x \in ElementsOf(n)}

\* min-elements of n as a number; YANG's default is 0
MinElements(n) == IF stmts[n].minel = None THEN 0 ELSE IntOf(stmts[n].minel[1])

Min(a, b) == IF a <= b THEN a ELSE b
Max(a, b) == IF a >= b THEN a ELSE b

\* a leaf the plugin leaves out: it has a default and --sample-defaults is off
OmittedLeaf(n) ==
    stmts[n].keyword = "leaf" /\ stmts[n].i_default # None /\ ~ctx.opts.sample_defaults

\* the data nodes of a case or choice c: its children, those of nested
\* choices and cases taken in their place
RECURSIVE CaseData(_)
CaseData(c) ==
    UNION {IF stmts[ch].keyword \in {"choice", "case"} THEN CaseData(ch) ELSE {ch}
           : ch \in Range(stmts[c].i_children)}

\* the nodes of the first entries in document order: the statements of the
\* document's elements, each kept at its first occurrence only
FirstEntries(top) ==
    LET o == DocOrder(top)
        firsts == SelectSeq([i \in DOMAIN o |-> i],
                      LAMBDA i : top[o[i]].node # 0
                                 /\ \A j \in 1..(i - 1) : top[o[j]].node # top[o[i]].node)
    IN  [i \in DOMAIN firsts |-> top[o[firsts[i]]].node]

(***************************************************************************)
(* Properties                                                              *)
(***************************************************************************)

C2_AtLeastOneEntry ==
    Done =>
        \A n \in DataNodes :
            stmts[n].keyword \in {"list", "leaf-list"} =>
                /\ ElementsOf(Enclosing(n)) # {}
                /\ \A e \in ElementsOf(Enclosing(n)) : EntriesUnder(e, n) # {}

\* C2 witness: emit has completed on a tree with a leaf-list whose
\* min-elements is 0, a list whose min-elements is absent and a list whose
\* min-elements is greater than 1, each with an entry in the document.
C2_Witness ==
    /\ Done
    /\ \E n \in DataNodes :
            stmts[n].keyword = "leaf-list" /\ stmts[n].minel = Some("0") /\ ElementsOf(n) # {}
    /\ \E n \in DataNodes :
            stmts[n].keyword = "list" /\ stmts[n].minel = None /\ ElementsOf(n) # {}
    /\ \E n \in DataNodes :
            stmts[n].keyword = "list" /\ MinElements(n) > 1 /\ ElementsOf(n) # {}

NoChoiceElements ==
    \A e \in InDoc :
        plugin.top[e].node # 0 => stmts[plugin.top[e].node].keyword \notin {"choice", "case"}

\* the elements of data node d are children of the elements of statement p,
\* and each element of p has one
ChildrenOf(d, p) ==
    /\ \A e \in ElementsOf(p) : EntriesUnder(e, d) # {}
    /\ \A x \in ElementsOf(d) : \E e \in ElementsOf(p) : x \in EntriesUnder(e, d)

C5_Stateless ==
    plugin.pc \in {"done", "failed"} =>
        /\ fresh.pc = plugin.pc
        /\ fresh.raised = plugin.raised
        /\ fresh.fd = plugin.fd

\* C5 witness: a call on two modules has written its document on an
\* instance whose preceding call had completed as well.
C5_Witness ==
    /\ Done
    /\ previous = "done"
    /\ Len(modules) = 2
    /\ Len(plugin.fd) > 10

\* C5 witness of a call after a failed one
C5_WitnessAfterFailure ==
    Done /\ previous = "failed" /\ Len(plugin.fd) > 10

\* the first entries of the document appear in the pre-order of the schema
FirstEntriesInPreOrder ==
    plugin.pc \in {"running", "done"} =>
        FirstEntries(plugin.top)
            = SelectSeq(SchemaPreOrder,
                        LAMBDA n : \E e \in InDoc : plugin.top[e].node = n)

\* a step of the traversal only adds elements, each after all the elements
\* that precede it in document order and last among its parent's children
AppendOnly ==
    (plugin.pc = "running" /\ plugin'.pc # "idle") =>
        /\ IsPrefix(DocOrder(plugin.top), DocOrder(plugin'.top))
        /\ \A e \in DOMAIN plugin.top :
                /\ IsPrefix(SubElements(plugin.top, e), SubElements(plugin'.top, e))
                /\ plugin'.top[e].tag = plugin.top[e].tag
                /\ plugin'.top[e].node = plugin.top[e].node

\* C6: the traversal is depth-first and append-only: at every moment of
\* emit the first entries of the elements are in the pre-order of the
\* schema tree (modules in the given order, children in i_children order,
\* a subtree before the next sibling), and no step removes or reorders an
\* element of the document.
C6_DepthFirstAppendOnly == [](FirstEntriesInPreOrder) /\ [][AppendOnly]_vars

\* C6 witness: emit has completed on two modules, with list entries
\* copied, and the document holds more than ten elements.
C6_Witness ==
    /\ Done
    /\ Len(modules) = 2
    /\ Len(plugin.top) > 10
    /\ \E n \in DataNodes : stmts[n].keyword = "list" /\ Cardinality(ElementsOf(n)) > 1

====
